---------------------------- MODULE Spec2Model ----------------------------
(***************************************************************************)
(* A model of buildfarm/release/release-runner.py: the single-instance     *)
(* lock, the polling loop, the per-release processing loop of main(), and  *)
(* the en-US artifact sanitation (sanitize_en_US_binary and its helpers).  *)
(*                                                                         *)
(* File names are sequences of tokens ("target", ".checksums", ".asc"),    *)
(* "/" being the path separator, so that str.endswith and os.path.basename *)
(* are computed and not assumed.  A file's content is a sequence of lines, *)
(* each line the sequence of its whitespace-separated fields.              *)
(***************************************************************************)
EXTENDS Integers, Sequences, FiniteSets, TLC

(***************************************************************************)
(* Bounds of the model.                                                    *)
(***************************************************************************)
\* longest wave of new releases one poll returns (Spec)
MaxWave == 3
\* longest wave when two invocations run side by side (SpecLock)
MaxWaveLock == 1
\* longest artifact listing of a build task (SpecSan)
MaxListing == 4
\* longest wave in the specification with fairness (SpecLive)
MaxWaveLive == 2
\* the longest release_channel_mappings of a branch configuration in SpecChannels
MaxMappings == 2
\* the most lines of a checksums manifest given to parse_sha512 (SpecParse)
MaxLines == 3

(***************************************************************************)
(* Sequences helpers.                                                      *)
(***************************************************************************)
Range(s) == {s[i] : i \in DOMAIN s}

\* all sequences over S of length 1..n
SeqsUpTo(S, n) == UNION {[1..k -> S] : k \in 1..n}

\* str.endswith(suffix), on token sequences
EndsWith(s, suffix) ==
    /\ Len(suffix) <= Len(s)
    /\ SubSeq(s, Len(s) - Len(suffix) + 1, Len(s)) = suffix

\* position of the last "/" of a path, 0 when it has none
LastSlash(p) ==
    IF \E i \in DOMAIN p : p[i] = "/"
    THEN CHOOSE i \in DOMAIN p : p[i] = "/" /\ \A j \in DOMAIN p : p[j] = "/" => j <= i
    ELSE 0

\* os.path.basename
basename(p) == SubSeq(p, LastSlash(p) + 1, Len(p))

(***************************************************************************)
(* The whitelists (module level of release-runner.py).                     *)
(***************************************************************************)
CHECKSUMS == { <<".checksums">>, <<".checksums", ".asc">> }

ALL_FILES ==
    { <<".checksums">>, <<".checksums", ".asc">>, <<".complete", ".mar">>,
      <<".exe">>, <<".dmg">>, <<"i686", ".tar", ".bz2">>,
      <<"x86_64", ".tar", ".bz2">> }

file_in_whitelist(artifact, whitelist) ==
    \E x \in whitelist : EndsWith(artifact, x)

(***************************************************************************)
(* The world a sanitation run talks to: the task's artifact listing, the   *)
(* answer of every GET, and gpg's two exit statuses.  Every text read from *)
(* a file (a digest, an algorithm name, a path) is a token sequence.       *)
(***************************************************************************)
ArtChecksums == <<"public", "/", "target", ".checksums">>
ArtSignature == <<"public", "/", "target", ".checksums", ".asc">>
ArtExe       == <<"public", "/", "target", ".exe">>
ArtMar       == <<"public", "/", "target", ".complete", ".mar">>
ArtLog       == <<"public", "/", "log", ".txt">>
ArtifactNames == {ArtChecksums, ArtSignature, ArtExe, ArtMar, ArtLog}

\* contents of the payload files
ContentA == << << <<"bytesA">> >> >>
ContentB == << << <<"bytesB">> >> >>
ContentSig == << << <<"pgp-signature">> >> >>

\* hashlib.new("sha512") over the file's chunks, hexdigest(): lower-case hex
get_hash(content) ==
    IF content = ContentA THEN <<"aa11">>
    ELSE IF content = ContentB THEN <<"bb22">>
    ELSE IF content = ContentSig THEN <<"cc33">>
    ELSE <<"dd44">>

\* checksums manifests: every line is what line.split() gives
LineExeSha512  == << <<"aa11">>, <<"sha512">>, <<"12">>, <<"target", ".exe">> >>
LineExeInDir   == << <<"aa11">>, <<"sha512">>, <<"12">>, <<"win32", "/", "target", ".exe">> >>
LineExeMd5     == << <<"ee55">>, <<"md5">>, <<"12">>, <<"target", ".exe">> >>
LineTxtSha512  == << <<"ff66">>, <<"sha512">>, <<"12">>, <<"log", ".txt">> >>
LineMarSha512  == << <<"bb22">>, <<"sha512">>, <<"12">>, <<"target", ".complete", ".mar">> >>
LineShort      == << <<"aa11">>, <<"sha512">>, <<"target", ".exe">> >>
\* a second sha512 line for target.exe, and the manifest's line for itself
LineExeOther   == << <<"cc33">>, <<"sha512">>, <<"12">>, <<"target", ".exe">> >>
LineChecksums  == << <<"dd44">>, <<"sha512">>, <<"12">>, <<"target", ".checksums">> >>

Lines ==
    { LineExeSha512, LineExeInDir, LineExeMd5, LineTxtSha512, LineMarSha512,
      LineShort, LineExeOther, LineChecksums }

Manifests ==
    { <<LineExeSha512>>,
      <<LineExeMd5, LineExeInDir, LineTxtSha512>>,
      <<LineExeSha512, LineMarSha512>>,
      <<LineExeSha512, LineShort>>,
      <<>> }

\* what requests.get and raise_for_status do for one artifact: the body is
\* served, or requests.HTTPError, or another error of requests (a refused
\* connection, a timeout), which is no HTTPError
Response(status, body) == [status |-> status, body |-> body]

NotFound == Response("HTTPError", <<>>)

Failures == {NotFound, Response("ConnectionError", <<>>)}

Responses(a) ==
    IF ~file_in_whitelist(a, ALL_FILES) THEN {Response("ok", ContentA)}
    ELSE IF EndsWith(a, <<".checksums">>)
         THEN {Response("ok", m) : m \in Manifests} \cup Failures
    ELSE IF EndsWith(a, <<".checksums", ".asc">>)
         THEN {Response("ok", ContentSig)} \cup Failures
    ELSE {Response("ok", ContentA), Response("ok", ContentB)} \cup Failures

\* one world: listing (queue.listLatestArtifacts), get (requests.get per
\* artifact; a name the task does not list is not found), gpg_import and
\* gpg_verify (whether each gpg call exits with status zero)
Env(listing, get, gpg_import, gpg_verify) ==
    [listing |-> listing,
     get |-> [a \in ArtifactNames |-> IF a \in Range(listing) THEN get[a] ELSE NotFound],
     gpg_import |-> gpg_import, gpg_verify |-> gpg_verify]

\* the listings: up to MaxListing of the names, in the order of ArtifactSeq
\* or in the reverse order
ArtifactSeq == <<ArtChecksums, ArtSignature, ArtExe, ArtMar, ArtLog>>

Reverse(s) == [i \in 1..Len(s) |-> s[Len(s) + 1 - i]]

Filtered(s, S) == LET In(a) == a \in S IN SelectSeq(s, In)

Listings(n) ==
    UNION { {Filtered(ArtifactSeq, S), Reverse(Filtered(ArtifactSeq, S))} :
            S \in {T \in SUBSET ArtifactNames : Cardinality(T) <= n} }

Answers(listing, a) == IF a \in Range(listing) THEN Responses(a) ELSE {NotFound}

SanEnvs(n) ==
    UNION { { Env(l, (ArtChecksums :> c) @@ (ArtSignature :> a) @@ (ArtExe :> x) @@
                     (ArtMar :> m) @@ (ArtLog :> t), gi, gv) :
                c \in Answers(l, ArtChecksums), a \in Answers(l, ArtSignature),
                x \in Answers(l, ArtExe), m \in Answers(l, ArtMar),
                t \in Answers(l, ArtLog), gi \in BOOLEAN, gv \in BOOLEAN } :
            l \in Listings(n) }

(***************************************************************************)
(* The sanitation run.  Its state is threaded through the steps: the files *)
(* written to the temporary directory, the local variables checksums and   *)
(* signature (<<>> while unbound), the events so far, and the exception    *)
(* that is propagating ("none" while there is none).                       *)
(***************************************************************************)
Event(op, name, ok) == [op |-> op, name |-> name, ok |-> ok]

NoFiles == [n \in {} |-> <<>>]

Write(files, name, body) ==
    [n \in DOMAIN files \cup {name} |-> IF n = name THEN body ELSE files[n]]

SanStart ==
    [files |-> NoFiles, checksums |-> <<>>, signature |-> <<>>,
     log |-> <<Event("mkdtemp", <<>>, TRUE)>>, raised |-> "none",
     dict |-> NoFiles, tempdir |-> TRUE]

Raise(st, exception) == [st EXCEPT !.raised = exception]

\* the element of a one-element set: TheOne({F(x) : x \in {e}}) is F at the
\* value of e, which is computed once
TheOne(S) == CHOOSE y \in S : TRUE

\* requests.get(build_url, timeout=60); r.raise_for_status(); the body is
\* written to tempdir under the artifact's base name.  Only
\* requests.HTTPError is caught: on_http_error is what the handler does
Download(env, artifact, st, on_http_error) ==
    LET r == env.get[artifact]
        got == [st EXCEPT !.log = Append(@, Event("get", artifact, r.status = "ok"))]
    IN  IF r.status = "HTTPError" THEN Raise(got, on_http_error)
        ELSE IF r.status # "ok" THEN Raise(got, r.status)
        ELSE [got EXCEPT !.files = Write(@, basename(artifact), r.body)]

\* lines 153-174: the manifest and its signature, in the listing's order
RECURSIVE FetchChecksumsArtifacts(_, _, _)
FetchChecksumsArtifacts(env, todo, st) ==
    IF todo = <<>> THEN st
    ELSE TheOne({
             IF got.raised # "none" THEN got
             ELSE FetchChecksumsArtifacts(env, Tail(todo),
                    IF EndsWith(basename(Head(todo)), <<".checksums", ".asc">>)
                    THEN [got EXCEPT !.signature = basename(Head(todo))]
                    ELSE [got EXCEPT !.checksums = basename(Head(todo))])
             : got \in {Download(env, Head(todo), st, "SanityException")}})

\* gpg's two commands run and their exit statuses are dropped
validate_signatures_unchecked(env, st) ==
    [st EXCEPT !.log = @ \o <<Event("gpg_import", <<>>, env.gpg_import),
                                Event("gpg_verify", st.checksums, env.gpg_verify)>>]

\* gpg --import, then gpg --verify; CalledProcessError becomes SanityException
validate_signatures(env, st) ==
    LET imported == [st EXCEPT !.log = Append(@, Event("gpg_import", <<>>, env.gpg_import))]
        verified == [imported EXCEPT
                       !.log = Append(@, Event("gpg_verify", st.checksums, env.gpg_verify))]
    IN  IF ~env.gpg_import THEN Raise(imported, "SanityException")
        ELSE IF ~env.gpg_verify THEN Raise(verified, "SanityException")
        ELSE verified

\* every artifact is tried; an HTTPError sets failed_downloads (kept in
\* raised as "failed_downloads" until the loop ends), any other error leaves
\* the loop at once
RECURSIVE DownloadLoop(_, _, _)
DownloadLoop(env, todo, st) ==
    IF todo = <<>>
    THEN IF st.raised = "failed_downloads" THEN Raise(st, "SanityException") ELSE st
    ELSE TheOne({
             IF got.raised \notin {"none", "failed_downloads"} THEN got
             ELSE DownloadLoop(env, Tail(todo),
                    IF st.raised = "failed_downloads"
                    THEN Raise(got, "failed_downloads") ELSE got)
             : got \in {Download(env, Head(todo), Raise(st, "none"),
                                 "failed_downloads")}})

download_all_artifacts(env, artifacts, st) == DownloadLoop(env, artifacts, st)

\* the sha512 lines of the manifest, keyed by base name: [raised, dict]
RECURSIVE ParseLines(_, _)
ParseLines(lines, dict) ==
    IF lines = <<>> THEN [raised |-> "none", dict |-> dict]
    ELSE IF Len(Head(lines)) # 4 THEN [raised |-> "ValueError", dict |-> dict]
    ELSE IF Head(lines)[2] # <<"sha512">> THEN ParseLines(Tail(lines), dict)
    ELSE TheOne({ParseLines(Tail(lines), d)
                 : d \in {Write(dict, basename(Head(lines)[4]), Head(lines)[1])}})

\* the entries of every sha512 line are returned, whatever the whitelist
parse_sha512_unfiltered(checksums, files) == ParseLines(checksums, NoFiles)

parse_sha512(checksums, files) ==
    TheOne({[raised |-> parsed.raised,
             dict |-> [k \in {n \in DOMAIN parsed.dict : file_in_whitelist(n, files)}
                         |-> parsed.dict[k]]]
            : parsed \in {ParseLines(checksums, NoFiles)}})

\* the names whose file is missing (get_hash raises IOError) or whose
\* digest differs from the manifest's
Unreadable(dict, files) == {name \in DOMAIN dict : name \notin DOMAIN files}

Mismatched(dict, files) ==
    {name \in DOMAIN dict : name \in DOMAIN files /\ get_hash(files[name]) # dict[name]}

\* the dictionary is walked in its own order and the first bad name raises
validate_checksums(dict, files) ==
    IF Unreadable(dict, files) = {} /\ Mismatched(dict, files) = {} THEN "none"
    ELSE IF Mismatched(dict, files) = {} THEN "IOError"
    ELSE IF Unreadable(dict, files) = {} THEN "SanityException"
    ELSE "SanityException or IOError"

\* the manifests and whitelists parse_sha512 is tried on: up to n lines, and
\* the whitelist of line 186 or the whole of ALL_FILES
ParseInputs(n) ==
    [checksums : {<<>>} \cup SeqsUpTo(Lines, n),
     files : {ALL_FILES \ CHECKSUMS, ALL_FILES}]

\* list(set(artifacts) - set(checksums_artifacts)): the set, in the order the
\* interpreter happens to give it
OtherArtifacts(env) ==
    {a \in Range(env.listing) :
        file_in_whitelist(a, ALL_FILES) /\ ~file_in_whitelist(a, CHECKSUMS)}

Orders(S) == {s \in [1..Cardinality(S) -> S] : Range(s) = S}

IsChecksums(a) == file_in_whitelist(a, CHECKSUMS)

\* lines 176-179; line 178 reads both local variables before the call
SanVerify(env, st) ==
    IF st.raised # "none" THEN st
    ELSE IF st.checksums = <<>> \/ st.signature = <<>>
         THEN Raise(st, "UnboundLocalError")
    ELSE validate_signatures(env, st)

\* lines 181-183
SanDownload(env, other_order, st) ==
    IF st.raised # "none" THEN st
    ELSE download_all_artifacts(env, other_order, st)

\* lines 185-187
SanParse(st) ==
    IF st.raised # "none" THEN st
    ELSE TheOne({[st EXCEPT !.log = Append(@, Event("parse", st.checksums,
                                                     parsed.raised = "none")),
                             !.raised = parsed.raised,
                             !.dict = parsed.dict]
                 : parsed \in {parse_sha512(st.files[st.checksums],
                                            ALL_FILES \ CHECKSUMS)}})

\* lines 189-191
SanChecksums(st) ==
    IF st.raised # "none" THEN st
    ELSE TheOne({[st EXCEPT !.log = Append(@, Event("checksums", <<>>,
                                                     checked = "none")),
                             !.raised = checked]
                 : checked \in {validate_checksums(st.dict, st.files)}})

\* lines 193-195: only a run that raised nothing gets here
SanRmtree(st) ==
    IF st.raised # "none" THEN st
    ELSE [st EXCEPT !.log = Append(@, Event("rmtree", <<>>, TRUE)),
                    !.tempdir = FALSE]

\* the manifest parsed (line 186) before the batch download (line 183)
sanitize_parse_first(env, other_order) ==
    TheOne({SanRmtree(s5) :
        s5 \in {SanChecksums(s4) :
        s4 \in {SanDownload(env, other_order, s3) :
        s3 \in {SanParse(s2) :
        s2 \in {SanVerify(env, s1) :
        s1 \in {FetchChecksumsArtifacts(env, SelectSeq(env.listing, IsChecksums),
                                        SanStart)}}}}}})

\* the batch download of line 183 moved before lines 176-179
sanitize_download_first(env, other_order) ==
    TheOne({SanRmtree(s5) :
        s5 \in {SanChecksums(s4) :
        s4 \in {SanParse(s3) :
        s3 \in {SanVerify(env, s2) :
        s2 \in {SanDownload(env, other_order, s1) :
        s1 \in {FetchChecksumsArtifacts(env, SelectSeq(env.listing, IsChecksums),
                                        SanStart)}}}}}})

sanitize_en_US_binary(env, other_order) ==
    TheOne({SanRmtree(s5) :
        s5 \in {SanChecksums(s4) :
        s4 \in {SanParse(s3) :
        s3 \in {SanDownload(env, other_order, s2) :
        s2 \in {SanVerify(env, s1) :
        s1 \in {FetchChecksumsArtifacts(env, SelectSeq(env.listing, IsChecksums),
                                        SanStart)}}}}}})

(***************************************************************************)
(* Versions, branches and the branch configuration (buildbot-configs).     *)
(* A version is the token sequence of its text; a pattern is the sequence  *)
(* of its atoms, matched as re.match does: from the start of the text, and *)
(* to its end only when the pattern ends in "$".                           *)
(***************************************************************************)
V40_0   == <<"40", ".", "0">>
V40_0b1 == <<"40", ".", "0", "b", "1">>
V40_0_1 == <<"40", ".", "0", ".", "1">>

Digits == {"0", "1", "40"}

AtomMatches(atom, token) ==
    IF atom = "\\d+" THEN token \in Digits
    ELSE IF atom = "\\." THEN token = "."
    ELSE atom = token

Pattern(atoms, dollar) == [atoms |-> atoms, dollar |-> dollar]

re_match(pattern, text) ==
    /\ Len(pattern.atoms) <= Len(text)
    /\ pattern.dollar => Len(pattern.atoms) = Len(text)
    /\ \A i \in DOMAIN pattern.atoms : AtomMatches(pattern.atoms[i], text[i])

Mapping(pattern, channels) == [pattern |-> pattern, channels |-> channels]

\* r"^\d+\.0$", r"^\d+\.\d+\.\d+$" (the doctest of update_channels), r"^\d+\.0b\d+$"
PatMajorZero == Pattern(<<"\\d+", "\\.", "0">>, TRUE)
PatThreePart == Pattern(<<"\\d+", "\\.", "\\d+", "\\.", "\\d+">>, TRUE)
PatBeta      == Pattern(<<"\\d+", "\\.", "0", "b", "\\d+">>, TRUE)
\* r"^\d+\.": every version
PatAny       == Pattern(<<"\\d+", "\\.">>, FALSE)

BranchRelease == <<"releases", "/", "mozilla-release">>
BranchBeta    == <<"releases", "/", "mozilla-beta">>

readBranchConfig(branch) ==
    IF branch = <<"mozilla-release">>
    THEN [release_channel_mappings |->
              <<Mapping(PatMajorZero, <<"beta", "release">>),
                Mapping(PatThreePart, <<"release">>)>>,
          mirror_requiring_channels |-> {"release"},
          postrelease_version_bump_enabled |-> TRUE,
          postrelease_bouncer_aliases_enabled |-> TRUE,
          release_platforms |-> <<"linux64", "win32">>]
    ELSE [release_channel_mappings |-> <<Mapping(PatBeta, <<"beta">>)>>,
          mirror_requiring_channels |-> {"beta"},
          postrelease_version_bump_enabled |-> TRUE,
          postrelease_bouncer_aliases_enabled |-> FALSE,
          release_platforms |-> <<"linux64">>]

\* the channels of the last mapping that matches
RECURSIVE update_channels_last(_, _)
update_channels_last(version, mappings) ==
    IF mappings = <<>> THEN [raised |-> "RuntimeError", channels |-> <<>>]
    ELSE IF re_match(mappings[Len(mappings)].pattern, version)
         THEN [raised |-> "none", channels |-> mappings[Len(mappings)].channels]
    ELSE update_channels_last(version, SubSeq(mappings, 1, Len(mappings) - 1))

\* the channels of the first mapping that matches: [raised, channels]
RECURSIVE update_channels(_, _)
update_channels(version, mappings) ==
    IF mappings = <<>> THEN [raised |-> "RuntimeError", channels |-> <<>>]
    ELSE IF re_match(Head(mappings).pattern, version)
         THEN [raised |-> "none", channels |-> Head(mappings).channels]
    ELSE update_channels(version, Tail(mappings))

\* kickoff.sanity: a candidate release ships to no final channel yet
is_candidate_release(channels) == "release" \notin Range(channels)

Without(channels, removed) ==
    LET keep(c) == c \notin removed IN SelectSeq(channels, keep)

\* a candidate release keeps its mirror-requiring channels
ChannelDecisionUnfiltered(version, config) ==
    LET found == update_channels(version, config.release_channel_mappings)
        candidate_release == is_candidate_release(found.channels)
    IN  [raised |-> found.raised,
         release_channels |-> found.channels,
         postrelease_enabled |->
             ~candidate_release /\ config.postrelease_version_bump_enabled,
         postrelease_bouncer_aliases_enabled |->
             ~candidate_release /\ config.postrelease_bouncer_aliases_enabled,
         final_verify_channels |-> found.channels,
         publish_to_balrog_channels |-> found.channels,
         push_to_releases_enabled |-> ~candidate_release]

\* lines 309-330, for one version and one branch configuration
ChannelDecision(version, config) ==
    LET found == update_channels(version, config.release_channel_mappings)
        release_channels == found.channels
        candidate_release == is_candidate_release(release_channels)
    IN  [raised |-> found.raised,
         release_channels |-> release_channels,
         postrelease_enabled |->
             IF candidate_release THEN FALSE
             ELSE config.postrelease_version_bump_enabled,
         postrelease_bouncer_aliases_enabled |->
             IF candidate_release THEN FALSE
             ELSE config.postrelease_bouncer_aliases_enabled,
         final_verify_channels |->
             IF candidate_release
             THEN Without(release_channels, config.mirror_requiring_channels)
             ELSE release_channels,
         publish_to_balrog_channels |->
             IF candidate_release
             THEN Without(release_channels, config.mirror_requiring_channels)
             ELSE release_channels,
         push_to_releases_enabled |-> ~candidate_release]

\* a release request, as far as main() reads it
Release(version, branch) == [version |-> version, branch |-> branch]

\* 40.0 on mozilla-release, 40.0b1 on mozilla-beta, and 40.0b1 on
\* mozilla-release, which no mapping of that branch matches
Releases ==
    { Release(V40_0, BranchRelease), Release(V40_0b1, BranchBeta),
      Release(V40_0b1, BranchRelease) }

Waves(n) == SeqsUpTo(Releases, n)

\* the versions, mappings and branch configurations update_channels and
\* lines 309-330 are tried on: the doctest's versions and mappings, a beta
\* mapping and a mapping that matches every version
Versions == {V40_0, V40_0_1, V40_0b1}

MappingEntries ==
    { Mapping(PatMajorZero, <<"beta", "release">>),
      Mapping(PatThreePart, <<"release">>),
      Mapping(PatBeta, <<"beta">>),
      Mapping(PatAny, <<"aurora", "beta", "nightly">>) }

MappingLists(n) == {<<>>} \cup SeqsUpTo(MappingEntries, n)

BranchConfigs(n) ==
    [release_channel_mappings : MappingLists(n),
     mirror_requiring_channels : SUBSET {"beta", "release", "nightly"},
     postrelease_version_bump_enabled : BOOLEAN,
     postrelease_bouncer_aliases_enabled : BOOLEAN,
     release_platforms : {<<"linux64">>}]

ChannelInputs(n) == [version : Versions, config : BranchConfigs(n)]

(***************************************************************************)
(* The worlds the orchestrator's build tasks are drawn from: a clean task, *)
(* a bad signature, a corrupted binary, a missing signature file, a failed *)
(* download.                                                               *)
(***************************************************************************)
GoodGet ==
    (ArtChecksums :> Response("ok", <<LineExeSha512>>)) @@
    (ArtSignature :> Response("ok", ContentSig)) @@
    (ArtExe :> Response("ok", ContentA))

EnvGood == Env(<<ArtChecksums, ArtSignature, ArtExe>>, GoodGet, TRUE, TRUE)

EnvBadSignature == Env(<<ArtChecksums, ArtSignature, ArtExe>>, GoodGet, TRUE, FALSE)

EnvCorrupt ==
    Env(<<ArtChecksums, ArtSignature, ArtExe>>,
        [GoodGet EXCEPT ![ArtExe] = Response("ok", ContentB)], TRUE, TRUE)

EnvNoSignature ==
    Env(<<ArtChecksums, ArtExe>>,
        (ArtChecksums :> Response("ok", <<LineExeSha512>>)) @@
        (ArtExe :> Response("ok", ContentA)), TRUE, TRUE)

EnvFetchFail ==
    Env(<<ArtChecksums, ArtSignature, ArtExe>>,
        [GoodGet EXCEPT ![ArtExe] = Response("HTTPError", <<>>)], TRUE, TRUE)

OrchEnvs == {EnvGood, EnvBadSignature, EnvCorrupt, EnvNoSignature, EnvFetchFail}

(***************************************************************************)
(* The state.  Every variable of an invocation is a function of the        *)
(* invocation (process); lockfile is the one thing two invocations share.  *)
(***************************************************************************)
VARIABLES
    lockfile,      \* the lock symlink: "" (absent), "stale" (left by a dead
                   \* process) or the invocation whose pid it names
    lock_state,    \* the FilesystemLock object: "new", "locked" (lock()
                   \* returned True), "refused" (it returned False), "unlocked"
    pc,            \* where each invocation is
    exc,           \* the exception propagating out of main(), "none" if none
    exitcode,      \* the exit status of the ended process, -1 while it runs
    polled,        \* what the last rr.get_release_requests did: "" (not
                   \* called yet), "empty", "new" or "raised"
    slept,         \* whether time.sleep has run since that call
    wave,          \* rr.new_releases
    release,       \* the local variable release of main(): an index into wave
    iter,          \* how many releases the for loop of line 333 has taken
    branch,        \* the local variable branch
    branchConfig,  \* the local variable branchConfig
    channels,      \* release_channels, final_verify_channels, ... of lines 309-330
    rc,            \* the local variable rc
    graph_id,      \* the local variable graph_id
    kwargs,        \* the local variable kwargs
    todo,          \* the platforms validate_graph_kwargs has still to sanitize
    sanitized,     \* what each sanitation run of the current release did
    rel,           \* per release of the wave: what the collaborators were told
    trace,         \* the calls made for the current release, in order
    world,         \* SpecSan: the world of the one sanitation run
    order,         \* SpecSan: the order list(set(...)) gives the other artifacts
    ran,           \* SpecSan: whether the run has been made
    run,           \* SpecSan: the run's final state
    input,         \* the arguments of the one call of a pure function
    output,        \* what that call returned
    applied        \* the function that was called, "" before the call

vars ==
    <<lockfile, lock_state, pc, exc, exitcode, polled, slept, wave, release, iter,
      branch, branchConfig, channels, rc, graph_id, kwargs, todo, sanitized,
      rel, trace, world, order, ran, run, input, output, applied>>

sanVars == <<world, order, ran, run>>

fnVars == <<input, output, applied>>

lockVars == <<lockfile, lock_state>>

pollVars == <<polled, slept>>

waveVars == <<wave, release, iter>>

chanVars == <<branch, branchConfig, channels>>

relVars == <<graph_id, kwargs, todo, sanitized, rel, trace>>

Procs == {"A", "B"}

NoLock == ""

StaleLock == "stale"

NewRel ==
    [attempted |-> FALSE, status |-> "", submitted |-> 0, completed |-> 0,
     failed |-> 0, diag |-> 0, raised |-> FALSE]

NoKwargs == [set |-> FALSE]

Call(name, ok) == [call |-> name, ok |-> ok]

Init ==
    /\ lockfile \in {NoLock, StaleLock}
    /\ lock_state = [p \in Procs |-> "new"]
    /\ pc = [p \in Procs |-> "lock"]
    /\ exc = [p \in Procs |-> "none"]
    /\ exitcode = [p \in Procs |-> -1]
    /\ polled = [p \in Procs |-> ""]
    /\ slept = [p \in Procs |-> FALSE]
    /\ wave = [p \in Procs |-> <<>>]
    /\ release = [p \in Procs |-> 0]
    /\ iter = [p \in Procs |-> 0]
    /\ branch = [p \in Procs |-> <<>>]
    /\ branchConfig = [p \in Procs |-> readBranchConfig(<<>>)]
    /\ channels = [p \in Procs |-> ChannelDecision(<<>>, readBranchConfig(<<>>))]
    /\ rc = [p \in Procs |-> 0]
    /\ graph_id = [p \in Procs |-> 0]
    /\ kwargs = [p \in Procs |-> NoKwargs]
    /\ todo = [p \in Procs |-> <<>>]
    /\ sanitized = [p \in Procs |-> <<>>]
    /\ rel = [p \in Procs |-> <<>>]
    /\ trace = [p \in Procs |-> <<>>]
    /\ world = EnvGood
    /\ order = <<>>
    /\ ran = FALSE
    /\ run = SanStart
    /\ input = <<>>
    /\ output = <<>>
    /\ applied = ""

(***************************************************************************)
(* __main__, lines 440-452: the lock around main().                        *)
(***************************************************************************)
\* an exception leaves main(): the finally clause runs next
Unwind(p, exception) ==
    /\ pc' = [pc EXCEPT ![p] = "finally"]
    /\ exc' = [exc EXCEPT ![p] = exception]

Goto(p, label) ==
    /\ pc' = [pc EXCEPT ![p] = label]
    /\ exc' = exc

\* twisted's FilesystemLock.lock(): False while the symlink names a live
\* process; a symlink left by a dead one is replaced (lock.clean is then
\* False, which lines 446-447 only log)
FilesystemLock_lock(p) ==
    LET live == lockfile \in Procs /\ pc[lockfile] # "exited"
    IN  [locked |-> ~live]

\* an invocation that would not look at what lock.lock() returned
LockUnchecked(p) ==
    /\ pc[p] = "lock"
    /\ lockfile' = p
    /\ lock_state' = [lock_state EXCEPT ![p] = "locked"]
    /\ Goto(p, "load_config")
    /\ exitcode' = exitcode
    /\ UNCHANGED <<pollVars, waveVars, chanVars, rc, relVars, sanVars, fnVars>>

Lock(p) ==
    /\ pc[p] = "lock"
    /\ LET got == FilesystemLock_lock(p)
       IN  IF got.locked
           THEN /\ lockfile' = p
                /\ lock_state' = [lock_state EXCEPT ![p] = "locked"]
                /\ Goto(p, "load_config")
                /\ exitcode' = exitcode
           ELSE \* raise Exception("Cannot acquire lock"), outside the try
                /\ pc' = [pc EXCEPT ![p] = "exited"]
                /\ exc' = [exc EXCEPT ![p] = "Exception"]
                /\ exitcode' = [exitcode EXCEPT ![p] = 1]
                /\ lock_state' = [lock_state EXCEPT ![p] = "refused"]
                /\ lockfile' = lockfile
    /\ UNCHANGED <<pollVars, waveVars, chanVars, rc, relVars, sanVars, fnVars>>

ExitStatus(exception) ==
    IF exception = "none" THEN 0
    ELSE IF exception = "SystemExit(2)" THEN 2
    ELSE IF exception = "SystemExit(5)" THEN 5
    ELSE 1

\* an invocation whose main() would release the lock only when it returns
UnlockOnReturn(p) ==
    /\ pc[p] = "finally"
    /\ lockfile' = IF exc[p] = "none" /\ lockfile = p THEN NoLock ELSE lockfile
    /\ lock_state' = [lock_state EXCEPT ![p] =
                        IF exc[p] = "none" THEN "unlocked" ELSE @]
    /\ pc' = [pc EXCEPT ![p] = "exited"]
    /\ exitcode' = [exitcode EXCEPT ![p] = ExitStatus(exc[p])]
    /\ UNCHANGED <<exc, pollVars, waveVars, chanVars, rc, relVars, sanVars, fnVars>>

\* finally: lock.unlock(), then the process ends.  unlock() removes the
\* symlink when it names this process and raises ValueError otherwise
Unlock(p) ==
    /\ pc[p] = "finally"
    /\ lockfile' = IF lockfile = p THEN NoLock ELSE lockfile
    /\ lock_state' = [lock_state EXCEPT ![p] =
                        IF lockfile = p THEN "unlocked" ELSE @]
    /\ pc' = [pc EXCEPT ![p] = "exited"]
    /\ exitcode' = [exitcode EXCEPT ![p] =
                      IF lockfile = p THEN ExitStatus(exc[p]) ELSE 1]
    /\ UNCHANGED <<exc, pollVars, waveVars, chanVars, rc, relVars, sanVars, fnVars>>

(***************************************************************************)
(* main(), lines 226-332: configuration, polling, checkout, channels.      *)
(***************************************************************************)
LoadConfig(p) ==
    /\ pc[p] = "load_config"
    /\ \/ Goto(p, "poll")
       \/ Unwind(p, "Exception")
    /\ UNCHANGED <<lockVars, exitcode, pollVars, waveVars, chanVars, rc, relVars, sanVars, fnVars>>

\* a polling loop that would log a failed poll, sleep and poll again
PollAgain(p, n) ==
    /\ pc[p] = "poll"
    /\ slept' = [slept EXCEPT ![p] = FALSE]
    /\ \/ /\ polled' = [polled EXCEPT ![p] = "raised"]
          /\ Goto(p, "sleep")
          /\ UNCHANGED <<waveVars, rel>>
       \/ /\ polled' = [polled EXCEPT ![p] = "empty"]
          /\ Goto(p, "sleep")
          /\ UNCHANGED <<waveVars, rel>>
       \/ \E w \in Waves(n) :
             /\ polled' = [polled EXCEPT ![p] = "new"]
             /\ wave' = [wave EXCEPT ![p] = w]
             /\ release' = [release EXCEPT ![p] = Len(w)]
             /\ rel' = [rel EXCEPT ![p] = [i \in 1..Len(w) |-> NewRel]]
             /\ iter' = iter
             /\ Goto(p, "checkout")
    /\ UNCHANGED <<lockVars, exitcode, chanVars, rc, graph_id, kwargs,
                   todo, sanitized, trace, sanVars, fnVars>>

\* one turn of the while loop, up to the break, the sleep or the exit
Poll(p, n) ==
    /\ pc[p] = "poll"
    /\ slept' = [slept EXCEPT ![p] = FALSE]
    /\ \/ \* get_release_requests raises: log.error, sys.exit(5)
          /\ polled' = [polled EXCEPT ![p] = "raised"]
          /\ Unwind(p, "SystemExit(5)")
          /\ UNCHANGED <<waveVars, rel>>
       \/ \* no new release
          /\ polled' = [polled EXCEPT ![p] = "empty"]
          /\ Goto(p, "sleep")
          /\ UNCHANGED <<waveVars, rel>>
       \/ \* new releases: the for loop of line 282 leaves release at the last
          \E w \in Waves(n) :
             /\ polled' = [polled EXCEPT ![p] = "new"]
             /\ wave' = [wave EXCEPT ![p] = w]
             /\ release' = [release EXCEPT ![p] = Len(w)]
             /\ rel' = [rel EXCEPT ![p] = [i \in 1..Len(w) |-> NewRel]]
             /\ iter' = iter
             /\ Goto(p, "checkout")
    /\ UNCHANGED <<lockVars, exitcode, chanVars, rc, graph_id, kwargs,
                   todo, sanitized, trace, sanVars, fnVars>>

\* time.sleep(sleeptime), then the loop turns again
Sleep(p) ==
    /\ pc[p] = "sleep"
    /\ slept' = [slept EXCEPT ![p] = TRUE]
    /\ Goto(p, "poll")
    /\ UNCHANGED <<lockVars, exitcode, polled, waveVars, chanVars, rc, relVars, sanVars, fnVars>>

\* retry(mercurial, ...) and the symlinks, lines 293-303
Checkout(p) ==
    /\ pc[p] = "checkout"
    /\ \/ Goto(p, "channels")
       \/ Unwind(p, "Exception")
    /\ UNCHANGED <<lockVars, exitcode, pollVars, waveVars, chanVars, rc, relVars, sanVars, fnVars>>

\* lines 306-332: branch, branchConfig and the channels, all read from the
\* local variable release, then rc = 0
DecideChannels(p) ==
    /\ pc[p] = "channels"
    /\ LET b == basename(wave[p][release[p]].branch)
           config == readBranchConfig(b)
           decided == ChannelDecision(wave[p][release[p]].version, config)
       IN  \/ \* readBranchConfig raises
              /\ Unwind(p, "Exception")
              /\ UNCHANGED <<chanVars, rc>>
           \/ \* update_channels raises RuntimeError
              /\ decided.raised # "none"
              /\ Unwind(p, "Exception")
              /\ branch' = [branch EXCEPT ![p] = b]
              /\ branchConfig' = [branchConfig EXCEPT ![p] = config]
              /\ UNCHANGED <<channels, rc>>
           \/ /\ decided.raised = "none"
              /\ branch' = [branch EXCEPT ![p] = b]
              /\ branchConfig' = [branchConfig EXCEPT ![p] = config]
              /\ channels' = [channels EXCEPT ![p] = decided]
              /\ rc' = [rc EXCEPT ![p] = 0]
              /\ Goto(p, "for")
    /\ UNCHANGED <<lockVars, exitcode, pollVars, waveVars, relVars, sanVars, fnVars>>

(***************************************************************************)
(* main(), lines 333-426: the for loop over rr.new_releases.               *)
(***************************************************************************)
\* the call returned: it is recorded and the next statement follows
Returned(p, name, next) ==
    /\ trace' = [trace EXCEPT ![p] = Append(@, Call(name, TRUE))]
    /\ Goto(p, next)

\* the call raised inside the try: control goes to the except clause
Raised(p, name) ==
    /\ trace' = [trace EXCEPT ![p] = Append(@, Call(name, FALSE))]
    /\ Goto(p, "except")

RelWith(p, field, value) ==
    [rel EXCEPT ![p] = [@ EXCEPT ![release[p]] = [@ EXCEPT ![field] = value]]]

Current(p) == rel[p][release[p]]

\* for release in rr.new_releases: graph_id = slugId()
NextRelease(p) ==
    /\ pc[p] = "for"
    /\ iter[p] < Len(wave[p])
    /\ iter' = [iter EXCEPT ![p] = @ + 1]
    /\ release' = [release EXCEPT ![p] = iter[p] + 1]
    /\ graph_id' = [graph_id EXCEPT ![p] = iter[p] + 1]
    /\ trace' = [trace EXCEPT ![p] = <<>>]
    /\ sanitized' = [sanitized EXCEPT ![p] = <<>>]
    /\ kwargs' = [kwargs EXCEPT ![p] = NoKwargs]
    /\ todo' = [todo EXCEPT ![p] = <<>>]
    /\ Goto(p, "update_status_generating")
    /\ UNCHANGED <<lockVars, exitcode, pollVars, wave, chanVars, rc, rel, sanVars, fnVars>>

\* rr.update_status(release, 'Generating task graph')
UpdateStatusGenerating(p) ==
    /\ pc[p] = "update_status_generating"
    /\ \/ /\ Returned(p, "update_status_generating", "assemble")
          /\ rel' = [rel EXCEPT ![p] = [@ EXCEPT ![release[p]] =
                       [@ EXCEPT !.attempted = TRUE,
                                 !.status = "Generating task graph"]]]
       \/ /\ Raised(p, "update_status_generating")
          /\ rel' = [rel EXCEPT ![p] = [@ EXCEPT ![release[p]] =
                       [@ EXCEPT !.attempted = TRUE, !.raised = TRUE]]]
    /\ UNCHANGED <<lockVars, exitcode, pollVars, waveVars, chanVars, rc,
                   graph_id, kwargs, todo, sanitized, sanVars, fnVars>>

\* lines 337-399: the collaborators' answers and the kwargs dictionary
AssembleKwargs(p) ==
    [set |-> TRUE,
     version |-> wave[p][release[p]].version,
     repo_path |-> wave[p][release[p]].branch,
     branch |-> branch[p],
     release_channels |-> channels[p].release_channels,
     final_verify_channels |-> channels[p].final_verify_channels,
     publish_to_balrog_channels |-> channels[p].publish_to_balrog_channels,
     postrelease_version_bump_enabled |-> channels[p].postrelease_enabled,
     postrelease_bouncer_aliases_enabled |->
         channels[p].postrelease_bouncer_aliases_enabled,
     push_to_releases_enabled |-> channels[p].push_to_releases_enabled,
     platforms |-> branchConfig[p].release_platforms]

Assemble(p) ==
    /\ pc[p] = "assemble"
    /\ \/ /\ Returned(p, "assemble", "validate_graph_kwargs")
          /\ kwargs' = [kwargs EXCEPT ![p] = AssembleKwargs(p)]
          /\ todo' = [todo EXCEPT ![p] = AssembleKwargs(p).platforms]
          /\ rel' = rel
       \/ /\ Raised(p, "assemble")
          /\ rel' = RelWith(p, "raised", TRUE)
          /\ UNCHANGED <<kwargs, todo>>
    /\ UNCHANGED <<lockVars, exitcode, pollVars, waveVars, chanVars, rc,
                   graph_id, sanitized, sanVars, fnVars>>

\* what the orchestrator's history keeps of one sanitation run
Summary(env, r) ==
    [world |-> env,
     returned |-> r.raised = "none",
     signature_verified |->
         \E i \in DOMAIN r.log : r.log[i].op = "gpg_verify" /\ r.log[i].ok,
     checksums_validated |->
         \E i \in DOMAIN r.log : r.log[i].op = "checksums" /\ r.log[i].ok,
     tempdir |-> r.tempdir]

\* a validation that would log a platform's failed sanitation and go on
validate_graph_kwargs_lenient(p) ==
    /\ pc[p] = "validate_graph_kwargs"
    /\ todo[p] # <<>>
    /\ \E env \in OrchEnvs : \E ord \in Orders(OtherArtifacts(env)) :
          \E r \in {sanitize_en_US_binary(env, ord)} :
              /\ sanitized' = [sanitized EXCEPT ![p] = Append(@, Summary(env, r))]
              /\ todo' = [todo EXCEPT ![p] = Tail(@)]
              /\ Returned(p, "sanitize_en_US_binary", "validate_graph_kwargs")
              /\ rel' = rel
    /\ UNCHANGED <<lockVars, exitcode, pollVars, waveVars, chanVars, rc,
                   graph_id, kwargs, sanVars, fnVars>>

\* validate_graph_kwargs, lines 209-213: one platform's sanitize_en_US_binary
validate_graph_kwargs(p) ==
    /\ pc[p] = "validate_graph_kwargs"
    /\ todo[p] # <<>>
    /\ \E env \in OrchEnvs : \E ord \in Orders(OtherArtifacts(env)) :
          \E r \in {sanitize_en_US_binary(env, ord)} :
              /\ sanitized' = [sanitized EXCEPT ![p] = Append(@, Summary(env, r))]
              /\ IF r.raised = "none"
                 THEN /\ todo' = [todo EXCEPT ![p] = Tail(@)]
                      /\ Returned(p, "sanitize_en_US_binary", "validate_graph_kwargs")
                      /\ rel' = rel
                 ELSE /\ todo' = todo
                      /\ Raised(p, "sanitize_en_US_binary")
                      /\ rel' = RelWith(p, "raised", TRUE)
    /\ UNCHANGED <<lockVars, exitcode, pollVars, waveVars, chanVars, rc,
                   graph_id, kwargs, sanVars, fnVars>>

\* the general sanitizer does not wait for the platforms' sanitation
ReleaseSanitizerEarly(p) ==
    /\ pc[p] = "validate_graph_kwargs"
    /\ \/ /\ Returned(p, "ReleaseSanitizerRunner", "make_task_graph")
          /\ rel' = rel
       \/ /\ Raised(p, "ReleaseSanitizerRunner")
          /\ rel' = RelWith(p, "raised", TRUE)
    /\ UNCHANGED <<lockVars, exitcode, pollVars, waveVars, chanVars, rc,
                   graph_id, kwargs, todo, sanitized, sanVars, fnVars>>

\* validate_graph_kwargs, lines 215-222: ReleaseSanitizerRunner
ReleaseSanitizer(p) ==
    /\ pc[p] = "validate_graph_kwargs"
    /\ todo[p] = <<>>
    /\ \/ /\ Returned(p, "ReleaseSanitizerRunner", "make_task_graph")
          /\ rel' = rel
       \/ /\ Raised(p, "ReleaseSanitizerRunner")
          /\ rel' = RelWith(p, "raised", TRUE)
    /\ UNCHANGED <<lockVars, exitcode, pollVars, waveVars, chanVars, rc,
                   graph_id, kwargs, todo, sanitized, sanVars, fnVars>>

\* graph = make_task_graph_strict_kwargs(kwargs)
MakeTaskGraph(p) ==
    /\ pc[p] = "make_task_graph"
    /\ \/ /\ Returned(p, "make_task_graph_strict_kwargs", "update_status_submitting")
          /\ rel' = rel
       \/ /\ Raised(p, "make_task_graph_strict_kwargs")
          /\ rel' = RelWith(p, "raised", TRUE)
    /\ UNCHANGED <<lockVars, exitcode, pollVars, waveVars, chanVars, rc,
                   graph_id, kwargs, todo, sanitized, sanVars, fnVars>>

\* rr.update_status(release, "Submitting task graph")
UpdateStatusSubmitting(p) ==
    /\ pc[p] = "update_status_submitting"
    /\ \/ /\ Returned(p, "update_status_submitting", "createTaskGraph")
          /\ rel' = RelWith(p, "status", "Submitting task graph")
       \/ /\ Raised(p, "update_status_submitting")
          /\ rel' = RelWith(p, "raised", TRUE)
    /\ UNCHANGED <<lockVars, exitcode, pollVars, waveVars, chanVars, rc,
                   graph_id, kwargs, todo, sanitized, sanVars, fnVars>>

\* scheduler.createTaskGraph(graph_id, graph)
CreateTaskGraph(p) ==
    /\ pc[p] = "createTaskGraph"
    /\ \/ /\ Returned(p, "createTaskGraph", "mark_as_completed")
          /\ rel' = RelWith(p, "submitted", graph_id[p])
       \/ /\ Raised(p, "createTaskGraph")
          /\ rel' = RelWith(p, "raised", TRUE)
    /\ UNCHANGED <<lockVars, exitcode, pollVars, waveVars, chanVars, rc,
                   graph_id, kwargs, todo, sanitized, sanVars, fnVars>>

\* rr.mark_as_completed(release)
MarkAsCompleted(p) ==
    /\ pc[p] = "mark_as_completed"
    /\ \/ /\ Returned(p, "mark_as_completed", "email_release_drivers")
          /\ rel' = RelWith(p, "completed", Current(p).completed + 1)
       \/ /\ Raised(p, "mark_as_completed")
          /\ rel' = RelWith(p, "raised", TRUE)
    /\ UNCHANGED <<lockVars, exitcode, pollVars, waveVars, chanVars, rc,
                   graph_id, kwargs, todo, sanitized, sanVars, fnVars>>

\* email_release_drivers(...): the last statement of the try
EmailReleaseDrivers(p) ==
    /\ pc[p] = "email_release_drivers"
    /\ \/ /\ Returned(p, "email_release_drivers", "for")
          /\ rel' = rel
       \/ /\ Raised(p, "email_release_drivers")
          /\ rel' = RelWith(p, "raised", TRUE)
    /\ UNCHANGED <<lockVars, exitcode, pollVars, waveVars, chanVars, rc,
                   graph_id, kwargs, todo, sanitized, sanVars, fnVars>>

\* an except clause that would mark the release failed and leave rc alone
HandleExceptionKeepRc(p) ==
    /\ pc[p] = "except"
    /\ rc' = rc
    /\ \/ /\ trace' = [trace EXCEPT ![p] = Append(@, Call("mark_as_failed", TRUE))]
          /\ rel' = [rel EXCEPT ![p] = [@ EXCEPT ![release[p]] =
                       [@ EXCEPT !.failed = @ + 1, !.diag = graph_id[p]]]]
          /\ Goto(p, "for")
       \/ /\ trace' = [trace EXCEPT ![p] = Append(@, Call("mark_as_failed", FALSE))]
          /\ rel' = rel
          /\ Unwind(p, "Exception")
    /\ UNCHANGED <<lockVars, exitcode, pollVars, waveVars, chanVars,
                   graph_id, kwargs, todo, sanitized, sanVars, fnVars>>

\* except: rc = 2; rr.mark_as_failed(release, '... (graph ID: %s)' % graph_id)
\* mark_as_failed is a call like the others and is inside no try of main()
HandleException(p) ==
    /\ pc[p] = "except"
    /\ rc' = [rc EXCEPT ![p] = 2]
    /\ \/ /\ trace' = [trace EXCEPT ![p] = Append(@, Call("mark_as_failed", TRUE))]
          /\ rel' = [rel EXCEPT ![p] = [@ EXCEPT ![release[p]] =
                       [@ EXCEPT !.failed = @ + 1, !.diag = graph_id[p]]]]
          /\ Goto(p, "for")
       \/ /\ trace' = [trace EXCEPT ![p] = Append(@, Call("mark_as_failed", FALSE))]
          /\ rel' = rel
          /\ Unwind(p, "Exception")
    /\ UNCHANGED <<lockVars, exitcode, pollVars, waveVars, chanVars,
                   graph_id, kwargs, todo, sanitized, sanVars, fnVars>>

\* after the loop the process would go back to polling
ExitWithRcPollAgain(p) ==
    /\ pc[p] = "for"
    /\ iter[p] = Len(wave[p])
    /\ Goto(p, "poll")
    /\ trace' = [trace EXCEPT ![p] = <<>>]
    /\ sanitized' = [sanitized EXCEPT ![p] = <<>>]
    /\ kwargs' = [kwargs EXCEPT ![p] = NoKwargs]
    /\ UNCHANGED <<lockVars, exitcode, pollVars, waveVars, chanVars, rc,
                   graph_id, todo, rel, sanVars, fnVars>>

\* after the loop: if rc != 0: sys.exit(rc)
ExitWithRc(p) ==
    /\ pc[p] = "for"
    /\ iter[p] = Len(wave[p])
    /\ IF rc[p] # 0 THEN Unwind(p, "SystemExit(2)") ELSE Goto(p, "finally")
    /\ trace' = [trace EXCEPT ![p] = <<>>]
    /\ sanitized' = [sanitized EXCEPT ![p] = <<>>]
    /\ kwargs' = [kwargs EXCEPT ![p] = NoKwargs]
    /\ UNCHANGED <<lockVars, exitcode, pollVars, waveVars, chanVars, rc,
                   graph_id, todo, rel, sanVars, fnVars>>

(***************************************************************************)
(* One sanitation run in a world of its own.                               *)
(***************************************************************************)
\* no invocation has started
Idle ==
    /\ lockfile = NoLock
    /\ lock_state = [p \in Procs |-> "new"]
    /\ pc = [p \in Procs |-> "lock"]
    /\ exc = [p \in Procs |-> "none"]
    /\ exitcode = [p \in Procs |-> -1]
    /\ polled = [p \in Procs |-> ""]
    /\ slept = [p \in Procs |-> FALSE]
    /\ wave = [p \in Procs |-> <<>>]
    /\ release = [p \in Procs |-> 0]
    /\ iter = [p \in Procs |-> 0]
    /\ branch = [p \in Procs |-> <<>>]
    /\ branchConfig = [p \in Procs |-> readBranchConfig(<<>>)]
    /\ channels = [p \in Procs |-> ChannelDecision(<<>>, readBranchConfig(<<>>))]
    /\ rc = [p \in Procs |-> 0]
    /\ graph_id = [p \in Procs |-> 0]
    /\ kwargs = [p \in Procs |-> NoKwargs]
    /\ todo = [p \in Procs |-> <<>>]
    /\ sanitized = [p \in Procs |-> <<>>]
    /\ rel = [p \in Procs |-> <<>>]
    /\ trace = [p \in Procs |-> <<>>]

NoSanitation ==
    /\ world = EnvGood
    /\ order = <<>>
    /\ ran = FALSE
    /\ run = SanStart

NoCall ==
    /\ input = <<>>
    /\ output = <<>>
    /\ applied = ""

InitSan ==
    /\ Idle
    /\ NoCall
    /\ world \in SanEnvs(MaxListing)
    /\ order \in Orders(OtherArtifacts(world))
    /\ ran = FALSE
    /\ run = SanStart

Sanitize ==
    /\ ~ran
    /\ ran' = TRUE
    /\ \E r \in {sanitize_en_US_binary(world, order)} : run' = r
    /\ UNCHANGED <<lockVars, pc, exc, exitcode, pollVars, waveVars, chanVars, rc,
                   relVars, world, order, fnVars>>

(***************************************************************************)
(* One call of update_channels, or one pass through lines 309-330, on a    *)
(* version and a branch configuration of its own.                          *)
(***************************************************************************)
InitChannels ==
    /\ Idle
    /\ NoSanitation
    /\ input \in ChannelInputs(MaxMappings)
    /\ output = <<>>
    /\ applied = ""

Apply(function, value) ==
    /\ applied = ""
    /\ applied' = function
    /\ output' = value
    /\ UNCHANGED <<lockVars, pc, exc, exitcode, pollVars, waveVars, chanVars, rc,
                   relVars, sanVars, input>>

CallUpdateChannels ==
    Apply("update_channels",
          update_channels(input.version, input.config.release_channel_mappings))

CallChannelDecision ==
    Apply("ChannelDecision", ChannelDecision(input.version, input.config))

(***************************************************************************)
(* One call of parse_sha512 on a manifest and a whitelist of its own.      *)
(***************************************************************************)
InitParse ==
    /\ Idle
    /\ NoSanitation
    /\ input \in ParseInputs(MaxLines)
    /\ output = <<>>
    /\ applied = ""

CallParseSha512 ==
    Apply("parse_sha512", parse_sha512(input.checksums, input.files))

(***************************************************************************)
(* The specifications.                                                     *)
(***************************************************************************)
\* one step of invocation p, whose polls return waves of at most n releases
Invocation(p, n) ==
    \/ Lock(p)
    \/ LoadConfig(p)
    \/ Poll(p, n)
    \/ Sleep(p)
    \/ Checkout(p)
    \/ DecideChannels(p)
    \/ NextRelease(p)
    \/ UpdateStatusGenerating(p)
    \/ Assemble(p)
    \/ validate_graph_kwargs(p)
    \/ ReleaseSanitizer(p)
    \/ MakeTaskGraph(p)
    \/ UpdateStatusSubmitting(p)
    \/ CreateTaskGraph(p)
    \/ MarkAsCompleted(p)
    \/ EmailReleaseDrivers(p)
    \/ HandleException(p)
    \/ ExitWithRc(p)
    \/ Unlock(p)

\* one invocation of release-runner.py
Next == Invocation("A", MaxWave)

Spec == Init /\ [][Next]_vars

\* two invocations with the same lock file
NextLock == \E p \in Procs : Invocation(p, MaxWaveLock)

SpecLock == Init /\ [][NextLock]_vars

\* one call of sanitize_en_US_binary
NextSan == Sanitize

SpecSan == InitSan /\ [][NextSan]_vars

\* one invocation that keeps running: every call returns or raises in
\* finite time (weak fairness of the step), and rr.get_release_requests,
\* called again and again, eventually finds new releases (strong fairness
\* of the poll that does)
NextLive == Invocation("A", MaxWaveLive)

PollFindsReleases == Poll("A", MaxWaveLive) /\ polled'["A"] = "new"

SpecLive ==
    /\ Init
    /\ [][NextLive]_vars
    /\ WF_vars(NextLive)
    /\ SF_vars(PollFindsReleases)

\* one call of update_channels or of the channel decision
NextChannels == CallUpdateChannels \/ CallChannelDecision

SpecChannels == InitChannels /\ [][NextChannels]_vars

\* one call of parse_sha512
NextParse == CallParseSha512

SpecParse == InitParse /\ [][NextParse]_vars

(***************************************************************************)
(* Vocabulary of the properties.                                           *)
(***************************************************************************)
Exited(p) == pc[p] = "exited"

\* the statements of main() that follow the polling loop
AfterPolling ==
    {"checkout", "channels", "for", "update_status_generating", "assemble",
     "validate_graph_kwargs", "make_task_graph", "update_status_submitting",
     "createTaskGraph", "mark_as_completed", "email_release_drivers", "except"}

MarkedCompleted(r) == r.completed > 0

MarkedFailed(r) == r.failed > 0

\* the release went through its turn of the loop: the try ran to its end,
\* or the except clause marked it failed
Processed(r) == MarkedFailed(r) \/ (MarkedCompleted(r) /\ ~r.raised)

AllProcessed(p) ==
    /\ wave[p] # <<>>
    /\ \A i \in DOMAIN rel[p] : Processed(rel[p][i])

\* what is true of a build task, whatever the program found out about it:
\* the manifest and its signature are served and gpg accepts them
SignatureGood(env) ==
    /\ ArtChecksums \in Range(env.listing)
    /\ ArtSignature \in Range(env.listing)
    /\ env.get[ArtChecksums].status = "ok"
    /\ env.get[ArtSignature].status = "ok"
    /\ env.gpg_import
    /\ env.gpg_verify

\* every sha512 entry of the served manifest that names a payload file has
\* the digest of the file the task serves under that base name
DigestsGood(env) ==
    /\ env.get[ArtChecksums].status = "ok"
    /\ \A line \in Range(env.get[ArtChecksums].body) :
          (/\ Len(line) = 4
           /\ line[2] = <<"sha512">>
           /\ file_in_whitelist(basename(line[4]), ALL_FILES \ CHECKSUMS))
          => \E a \in Range(env.listing) :
                /\ basename(a) = basename(line[4])
                /\ env.get[a].status = "ok"
                /\ get_hash(env.get[a].body) = line[1]

Sane(env) == SignatureGood(env) /\ DigestsGood(env)

\* positions of a run's log: the downloads of files other than the manifest
\* and its signature, the comparisons of digests, and the positions that
\* follow a gpg --import and a gpg --verify which both exited with 0
PayloadGets(log) ==
    {i \in DOMAIN log : log[i].op = "get" /\ ~IsChecksums(log[i].name)}

DigestChecks(log) == {i \in DOMAIN log : log[i].op = "checksums"}

GpgFailures(log) ==
    {i \in DOMAIN log : log[i].op \in {"gpg_import", "gpg_verify"} /\ ~log[i].ok}

SignatureVerifiedBefore(log, i) ==
    \E j \in 1..(i - 1) : \E k \in 1..(j - 1) :
        /\ log[k].op = "gpg_import" /\ log[k].ok
        /\ log[j].op = "gpg_verify" /\ log[j].ok

\* the lines of a manifest that parse_sha512 keeps: algorithm sha512, and a
\* path whose base name ends with a suffix of the whitelist
IsSha512(line) == line[2] = <<"sha512">>

Eligible(manifest, files) ==
    {i \in DOMAIN manifest :
        /\ IsSha512(manifest[i])
        /\ file_in_whitelist(basename(manifest[i][4]), files)}

\* the same build task with its artifacts listed in the opposite order
Reversed(env) == [env EXCEPT !.listing = Reverse(@)]

\* the positions of the log at which parse_sha512 was called
ParseCalls(log) == {i \in DOMAIN log : log[i].op = "parse"}

\* line 183 was reached: download_all_artifacts was called
BatchStarted(log) == SignatureVerifiedBefore(log, Len(log) + 1)

\* the calls made so far for the release at hand
Calls(p) == {trace[p][i].call : i \in DOMAIN trace[p]}

GraphCalls == {"make_task_graph_strict_kwargs", "createTaskGraph"}

\* the calls of the try of lines 335-412, in the order of the source
StepOrder ==
    <<"update_status_generating", "assemble", "sanitize_en_US_binary",
      "ReleaseSanitizerRunner", "make_task_graph_strict_kwargs",
      "update_status_submitting", "createTaskGraph", "mark_as_completed",
      "email_release_drivers">>

Rank(call) == CHOOSE i \in DOMAIN StepOrder : StepOrder[i] = call

\* call b is the statement that follows call a: the next one of the list, or
\* the sanitation of one more platform, or the general sanitizer at once
\* when the release has no platform
Follows(a, b, platforms) ==
    \/ Rank(b) = Rank(a) + 1
    \/ a = "sanitize_en_US_binary" /\ b = "sanitize_en_US_binary"
    \/ a = "assemble" /\ b = "ReleaseSanitizerRunner" /\ platforms = <<>>

SanitationCalls(t) == {i \in DOMAIN t : t[i].call = "sanitize_en_US_binary"}

\* the channels and flags a release's own version and branch give
OwnDecision(r) == ChannelDecision(r.version, readBranchConfig(basename(r.branch)))

(***************************************************************************)
(* The claims.                                                             *)
(***************************************************************************)

\* C1: failure isolation.  When the process has ended, every release that
\* follows, in its wave, a release whose processing raised an exception has
\* been attempted, and if none of its own steps raised it is marked
\* completed with its graph submitted.
C1_FailureIsolation ==
    \A p \in Procs :
        Exited(p) =>
            \A i \in DOMAIN rel[p] : \A j \in DOMAIN rel[p] :
                (i < j /\ rel[p][i].raised) =>
                    /\ rel[p][j].attempted
                    /\ ~rel[p][j].raised =>
                          MarkedCompleted(rel[p][j]) /\ rel[p][j].submitted # 0

\* C2: sanitize_en_US_binary never leaves its temporary directory behind:
\* once the call has returned or raised, the directory no longer exists.
C2_WorkspaceRemoved == ran => ~run.tempdir

\* C3: a task graph is built and submitted for a release only if, for every
\* platform of the release, the manifest's signature verified and every
\* manifest entry's digest matched; if sanitation fails for a platform, the
\* graph is neither built nor submitted and the release is not marked
\* completed.
C3_GraphOnlyAfterSanitation ==
    \A p \in Procs :
        /\ Calls(p) \cap GraphCalls # {} =>
              /\ kwargs[p].set
              /\ Len(sanitized[p]) = Len(kwargs[p].platforms)
              /\ \A k \in DOMAIN sanitized[p] :
                    /\ Sane(sanitized[p][k].world)
                    /\ sanitized[p][k].signature_verified
                    /\ sanitized[p][k].checksums_validated
        /\ (\E k \in DOMAIN sanitized[p] :
                ~Sane(sanitized[p][k].world) \/ ~sanitized[p][k].returned) =>
              /\ Calls(p) \cap GraphCalls = {}
              /\ Current(p).submitted = 0
              /\ ~MarkedCompleted(Current(p))

\* C3 happens: a graph was submitted for a release of two platforms
C3_Witness ==
    \E p \in Procs :
        /\ "createTaskGraph" \in Calls(p)
        /\ Len(sanitized[p]) = 2
        /\ Current(p).submitted # 0

\* C4: aggregate exit code.  Once every release of the wave has been
\* processed, the exit code is 2 exactly when some release was marked
\* failed, and 0 exactly when every release was marked completed and none
\* was marked failed.
C4_AggregateExitCode ==
    \A p \in Procs :
        (Exited(p) /\ AllProcessed(p)) =>
            /\ exitcode[p] = 2 <=> \E i \in DOMAIN rel[p] : MarkedFailed(rel[p][i])
            /\ exitcode[p] = 0 <=>
                  \A i \in DOMAIN rel[p] :
                      MarkedCompleted(rel[p][i]) /\ ~MarkedFailed(rel[p][i])

\* C4 happens: a wave with a completed and a failed release ended with 2
C4_Witness ==
    \E p \in Procs :
        /\ Exited(p)
        /\ AllProcessed(p)
        /\ exitcode[p] = 2
        /\ \E i \in DOMAIN rel[p] : MarkedCompleted(rel[p][i]) /\ ~MarkedFailed(rel[p][i])
        /\ \E i \in DOMAIN rel[p] : MarkedFailed(rel[p][i])

\* C5: a channel-decision error is scoped to one release.  When the process
\* has ended after the channel decision began, a release whose version no
\* mapping of its branch matches is marked failed, and every other release
\* of the wave has been attempted.
C5_ChannelErrorScoped ==
    \A p \in Procs :
        (Exited(p) /\ branch[p] # <<>>) =>
            \A i \in DOMAIN wave[p] :
                OwnDecision(wave[p][i]).raised # "none" =>
                    /\ MarkedFailed(rel[p][i])
                    /\ \A j \in DOMAIN wave[p] : j # i => rel[p][j].attempted

\* C6: the channel decision is computed per release.  The channels and the
\* flags passed to the graph builder for a release are the ones derived from
\* that release's own version and branch configuration.
C6_ChannelsPerRelease ==
    \A p \in Procs :
        kwargs[p].set =>
            LET own == OwnDecision([version |-> kwargs[p].version,
                                    branch |-> kwargs[p].repo_path])
            IN  /\ own.raised = "none"
                /\ kwargs[p].release_channels = own.release_channels
                /\ kwargs[p].final_verify_channels = own.final_verify_channels
                /\ kwargs[p].publish_to_balrog_channels = own.publish_to_balrog_channels
                /\ kwargs[p].postrelease_version_bump_enabled = own.postrelease_enabled
                /\ kwargs[p].postrelease_bouncer_aliases_enabled =
                       own.postrelease_bouncer_aliases_enabled
                /\ kwargs[p].push_to_releases_enabled = own.push_to_releases_enabled

\* C7: every discovered release reaches a terminal status.  A process that
\* ends after polling returned a wave has marked every release of the wave
\* completed or failed.
C7_EveryReleaseTerminal ==
    \A p \in Procs :
        (Exited(p) /\ polled[p] = "new") =>
            \A i \in DOMAIN rel[p] :
                MarkedCompleted(rel[p][i]) \/ MarkedFailed(rel[p][i])

\* C8: polling.  The statements after the loop run only with a non-empty
\* wave; every empty poll is followed by the sleep before the next poll; a
\* poll that raises ends the process with exit code 5, with no other poll
\* and with nothing processed, marked or submitted.
C8_Polling ==
    \A p \in Procs :
        /\ pc[p] \in AfterPolling => polled[p] = "new" /\ wave[p] # <<>>
        /\ rel[p] # <<>> => polled[p] = "new"
        /\ pc[p] = "sleep" => polled[p] = "empty" /\ ~slept[p]
        /\ pc[p] = "poll" => polled[p] = "" \/ (polled[p] = "empty" /\ slept[p])
        /\ polled[p] = "empty" => pc[p] \in {"sleep", "poll"} /\ wave[p] = <<>>
        /\ polled[p] = "raised" =>
              /\ pc[p] \in {"finally", "exited"}
              /\ exc[p] = "SystemExit(5)"
              /\ wave[p] = <<>> /\ rel[p] = <<>> /\ trace[p] = <<>>
              /\ Exited(p) => exitcode[p] = 5
        /\ (Exited(p) /\ exitcode[p] = 5) => polled[p] = "raised"

\* C8 happens: a poll raised and the process ended with exit code 5
C8_Witness ==
    \E p \in Procs : Exited(p) /\ polled[p] = "raised" /\ exitcode[p] = 5

\* C9: single instance.  Two invocations are never both inside main, and an
\* invocation that lock.lock() refused has ended without polling and without
\* processing any release.
C9_SingleInstance ==
    /\ \A p \in Procs : \A q \in Procs :
          (p # q /\ pc[p] \notin {"lock", "exited"}) => pc[q] \in {"lock", "exited"}
    /\ \A p \in Procs :
          lock_state[p] = "refused" =>
              /\ Exited(p)
              /\ exitcode[p] = 1
              /\ polled[p] = ""
              /\ wave[p] = <<>> /\ rel[p] = <<>> /\ trace[p] = <<>>

\* C9 happens: one invocation was refused while the other, holding the
\* lock, was processing a release
C9_Witness ==
    \E p \in Procs : \E q \in Procs :
        /\ lock_state[p] = "refused"
        /\ lockfile = q
        /\ pc[q] = "createTaskGraph"

\* C10: lock release.  The lock is held from its acquisition to the end of
\* main, and once the process has ended, by whatever exit path, the lock
\* file no longer names it.
C10_LockReleased ==
    \A p \in Procs :
        /\ pc[p] \notin {"lock", "exited"} => lockfile = p /\ lock_state[p] = "locked"
        /\ Exited(p) => lockfile # p /\ lock_state[p] \in {"unlocked", "refused"}
        /\ (Exited(p) /\ lock_state[p] = "unlocked") =>
              exitcode[p] = ExitStatus(exc[p])

\* C10 happens: one invocation left through sys.exit(2) and the other, after
\* it, through an unhandled exception, and the lock file is gone
C10_Witness ==
    \E p \in Procs : \E q \in Procs :
        /\ Exited(p) /\ exc[p] = "SystemExit(2)" /\ lock_state[p] = "unlocked"
        /\ Exited(q) /\ exc[q] = "Exception" /\ lock_state[q] = "unlocked"
        /\ exitcode[q] = 1
        /\ lockfile = NoLock

\* C11: the trust boundary.  In a sanitation run no file other than the
\* manifest and its signature is downloaded, and no digest is compared,
\* before gpg imported the key and verified the signature of the manifest;
\* when the import or the verification fails the run raises, and nothing is
\* downloaded or compared after the failure.
C11_TrustBoundary ==
    /\ \A i \in PayloadGets(run.log) \cup DigestChecks(run.log) :
           SignatureVerifiedBefore(run.log, i)
    /\ \A i \in GpgFailures(run.log) :
           /\ run.raised # "none"
           /\ \A j \in PayloadGets(run.log) \cup DigestChecks(run.log) : j < i

\* a run that verified the signature, then downloaded a payload file and
\* compared the digests
C11_Witness ==
    /\ ran
    /\ PayloadGets(run.log) # {}
    /\ DigestChecks(run.log) # {}

\* C12: detection of corruption.  A run in which a downloaded payload file
\* has another digest than its manifest entry raises; and a run that
\* returns has compared every payload file it downloaded with a manifest
\* entry of the file's name, and the two digests were equal.
C12_CorruptionDetected ==
    ran =>
        /\ Mismatched(run.dict, run.files) # {} => run.raised # "none"
        /\ run.raised = "none" =>
              \A a \in OtherArtifacts(world) :
                  basename(a) \in DOMAIN run.files =>
                      /\ basename(a) \in DOMAIN run.dict
                      /\ get_hash(run.files[basename(a)]) = run.dict[basename(a)]

\* C13: the batch download.  Once download_all_artifacts is called, every
\* name it is given is requested, whatever error (HTTP status, connection
\* error, timeout) an earlier name met; and the call raises, after the last
\* name, exactly when at least one request failed.
C13_BatchFetchAttemptsAll ==
    (ran /\ BatchStarted(run.log)) =>
        /\ \A a \in Range(order) :
               \E i \in PayloadGets(run.log) : run.log[i].name = a
        /\ (\E i \in PayloadGets(run.log) : ~run.log[i].ok)
               <=> ~(\E i \in DOMAIN run.log : run.log[i].op = "parse")

\* C14: update_channels returns the channels of the first mapping, in the
\* order of the list, whose pattern matches the version, also when later
\* mappings match too; it raises when no mapping matches, in particular
\* when the list is empty.
C14_FirstMatchWins ==
    applied = "update_channels" =>
        LET mappings == input.config.release_channel_mappings
            Matching == {i \in DOMAIN mappings :
                            re_match(mappings[i].pattern, input.version)}
        IN  IF Matching = {} THEN output.raised = "RuntimeError"
            ELSE /\ output.raised = "none"
                 /\ \E i \in Matching :
                        /\ \A j \in Matching : i <= j
                        /\ output.channels = mappings[i].channels

\* two mappings match and name different channels: the first one's are
\* returned
C14_Witness ==
    /\ applied = "update_channels"
    /\ Len(input.config.release_channel_mappings) = 2
    /\ \A i \in {1, 2} :
           re_match(input.config.release_channel_mappings[i].pattern, input.version)
    /\ input.config.release_channel_mappings[1].channels
           # input.config.release_channel_mappings[2].channels
    /\ output.channels = input.config.release_channel_mappings[1].channels

\* C15: the channel policy.  For a candidate release postrelease_enabled,
\* postrelease_bouncer_aliases_enabled and push_to_releases_enabled are
\* false, and final_verify_channels and publish_to_balrog_channels are both
\* release_channels without the mirror-requiring channels, in the same
\* order; otherwise push_to_releases_enabled is true, the two postrelease
\* flags are the branch configuration's and both lists are release_channels.
C15_ChannelPolicy ==
    (applied = "ChannelDecision" /\ output.raised = "none") =>
        LET config == input.config
            kept == {i \in DOMAIN output.release_channels :
                        output.release_channels[i] \notin config.mirror_requiring_channels}
        IN  IF is_candidate_release(output.release_channels)
            THEN /\ ~output.postrelease_enabled
                 /\ ~output.postrelease_bouncer_aliases_enabled
                 /\ ~output.push_to_releases_enabled
                 /\ output.publish_to_balrog_channels = output.final_verify_channels
                 /\ Len(output.final_verify_channels) = Cardinality(kept)
                 /\ \E f \in [DOMAIN output.final_verify_channels -> kept] :
                        /\ \A i \in DOMAIN f : \A j \in DOMAIN f : i < j => f[i] < f[j]
                        /\ \A i \in DOMAIN f :
                               output.final_verify_channels[i] = output.release_channels[f[i]]
            ELSE /\ output.push_to_releases_enabled
                 /\ output.postrelease_enabled = config.postrelease_version_bump_enabled
                 /\ output.postrelease_bouncer_aliases_enabled
                        = config.postrelease_bouncer_aliases_enabled
                 /\ output.final_verify_channels = output.release_channels
                 /\ output.publish_to_balrog_channels = output.release_channels

\* a candidate release with three channels, the middle one of which requires
\* the mirrors, in a branch whose postrelease flags are both set
C15_Witness ==
    /\ applied = "ChannelDecision"
    /\ output.raised = "none"
    /\ output.release_channels = <<"aurora", "beta", "nightly">>
    /\ input.config.mirror_requiring_channels = {"beta"}
    /\ input.config.postrelease_version_bump_enabled
    /\ input.config.postrelease_bouncer_aliases_enabled
    /\ output.final_verify_channels = <<"aurora", "nightly">>

\* C16: when parse_sha512 returns, its dictionary has an entry for a base
\* name exactly when the manifest has a line with algorithm sha512 whose
\* path has that base name and the base name ends with a suffix of the
\* whitelist; the entry's value is the digest of such a line; and the lines
\* of other algorithms add and overwrite nothing: without them the result
\* is the same.
C16_ParseSha512 ==
    (applied = "parse_sha512" /\ output.raised = "none") =>
        /\ DOMAIN output.dict =
               {basename(input.checksums[i][4]) :
                    i \in Eligible(input.checksums, input.files)}
        /\ \A name \in DOMAIN output.dict :
               \E i \in Eligible(input.checksums, input.files) :
                   /\ basename(input.checksums[i][4]) = name
                   /\ input.checksums[i][1] = output.dict[name]
        /\ output = parse_sha512(SelectSeq(input.checksums, IsSha512), input.files)

\* a sha512 line for target.exe, then an md5 line for it with another
\* digest and a sha512 line for a file outside the whitelist: the one entry
\* is target.exe with the sha512 digest
C16_Witness ==
    /\ applied = "parse_sha512"
    /\ input.checksums = <<LineExeSha512, LineExeMd5, LineTxtSha512>>
    /\ output.raised = "none"
    /\ DOMAIN output.dict = {basename(ArtExe)}
    /\ output.dict[basename(ArtExe)] = LineExeSha512[1]

\* C17: the terminal status of a release is exclusive.  mark_as_completed
\* and mark_as_failed are each called at most once for a release and never
\* both; a release that went through its turn of the loop has one of the
\* two; and a process whose releases were all marked completed does not end
\* with the exit status of a failure.
C17_TerminalStatusExclusive ==
    \A p \in Procs :
        /\ \A i \in DOMAIN rel[p] :
               /\ rel[p][i].completed <= 1
               /\ rel[p][i].failed <= 1
               /\ ~(MarkedCompleted(rel[p][i]) /\ MarkedFailed(rel[p][i]))
               /\ Processed(rel[p][i]) =>
                      MarkedCompleted(rel[p][i]) \/ MarkedFailed(rel[p][i])
        /\ (/\ Exited(p)
            /\ exitcode[p] = 2)
               => \E i \in DOMAIN rel[p] : ~MarkedCompleted(rel[p][i])

\* C18: a build task whose artifact list lacks the checksums manifest or
\* its signature.  The sanitation run raises, and it has downloaded no file
\* other than the manifest or the signature and compared no digest.  The
\* two files are told apart by their suffixes: whatever the order of the
\* list, the manifest is the file without ".asc", and the run succeeds for
\* one order exactly when it succeeds for the opposite one.
C18_MissingManifestOrSignature ==
    ran =>
        /\ (ArtChecksums \notin Range(world.listing)
               \/ ArtSignature \notin Range(world.listing)) =>
               /\ run.raised # "none"
               /\ PayloadGets(run.log) = {}
               /\ DigestChecks(run.log) = {}
        /\ run.checksums \in {<<>>, basename(ArtChecksums)}
        /\ run.signature \in {<<>>, basename(ArtSignature)}
        /\ \E other \in {sanitize_en_US_binary(Reversed(world), order)} :
               (other.raised = "none") <=> (run.raised = "none")

\* the signature is not listed, the manifest is served and a payload file
\* is listed: the run ends at line 178
C18_Witness ==
    /\ ran
    /\ ArtSignature \notin Range(world.listing)
    /\ ArtChecksums \in Range(world.listing)
    /\ world.get[ArtChecksums].status = "ok"
    /\ OtherArtifacts(world) # {}
    /\ run.raised = "UnboundLocalError"

\* C19: the order of the steps of one release.  The calls made for a
\* release are, in this order: status "Generating task graph", assembly of
\* the parameters, sanitation of every platform, the general sanitizer,
\* graph construction, status "Submitting task graph", submission, mark as
\* completed, notification; a call is made only if every earlier one
\* returned; mark_as_failed follows a call that raised and nothing follows
\* it; and the diagnostic of a failed release carries the graph identifier
\* of the release's own turn, the one its submission used.
C19_StepOrder ==
    \A p \in Procs :
        LET t == trace[p] IN
        /\ \A i \in DOMAIN t :
               IF t[i].call = "mark_as_failed"
               THEN i = Len(t) /\ i > 1 /\ ~t[i - 1].ok
               ELSE IF i = 1 THEN t[i].call = StepOrder[1]
               ELSE /\ t[i - 1].ok
                    /\ t[i - 1].call # "mark_as_failed"
                    /\ Follows(t[i - 1].call, t[i].call, kwargs[p].platforms)
        /\ kwargs[p].set =>
               /\ Cardinality(SanitationCalls(t)) <= Len(kwargs[p].platforms)
               /\ (\E i \in DOMAIN t : t[i].call = "ReleaseSanitizerRunner") =>
                      /\ Cardinality(SanitationCalls(t)) = Len(kwargs[p].platforms)
                      /\ \A i \in SanitationCalls(t) : t[i].ok
        /\ \A i \in DOMAIN rel[p] :
               /\ rel[p][i].submitted \in {0, i}
               /\ MarkedFailed(rel[p][i]) => rel[p][i].diag = i
               /\ (i = release[p] /\ t # <<>>) =>
                      /\ rel[p][i].status = "Submitting task graph"
                             <=> Call("update_status_submitting", TRUE) \in Range(t)
                      /\ rel[p][i].status = "Generating task graph"
                             <=> /\ t[1].ok
                                 /\ Call("update_status_submitting", TRUE) \notin Range(t)

\* the first release of a wave failed and has its own graph identifier in
\* the diagnostic; the second one, with two platforms, went through all
\* the steps
C19_Witness ==
    /\ Len(rel["A"]) >= 2
    /\ MarkedFailed(rel["A"][1])
    /\ rel["A"][1].diag = 1
    /\ release["A"] = 2
    /\ Len(trace["A"]) = 10
    /\ trace["A"][10] = Call("email_release_drivers", TRUE)
    /\ rel["A"][2].submitted = 2

\* C20: termination.  When every call returns or raises in finite time and
\* the request source eventually returns new releases, a process that is
\* polling eventually ends; a process that ended after polls that did not
\* raise has found a wave and taken each of its releases at most once; and
\* once a wave was found the process never polls or sleeps again.
C20_Termination ==
    /\ (pc["A"] = "poll") ~> Exited("A")
    /\ []((Exited("A") /\ polled["A"] \notin {"", "raised"}) =>
             /\ polled["A"] = "new"
             /\ iter["A"] <= Len(wave["A"])
             /\ \A i \in DOMAIN rel["A"] :
                    rel["A"][i].completed <= 1 /\ rel["A"][i].submitted \in {0, i})
    /\ [](polled["A"] = "new" => pc["A"] \notin {"poll", "sleep"})

\* the process found a wave of two releases, went through both and ended
\* with exit status 0
C20_Witness ==
    /\ Exited("A")
    /\ polled["A"] = "new"
    /\ Len(wave["A"]) = MaxWaveLive
    /\ AllProcessed("A")
    /\ exitcode["A"] = 0

\* C21, as the specification states it: the manifest is parsed before the
\* batch download.  Every download of a file other than the manifest and
\* its signature follows a parse_sha512 that returned, and a run whose
\* parse_sha512 raised has downloaded no such file.
C21_ParseBeforeDownload ==
    /\ \A i \in PayloadGets(run.log) :
           \E j \in ParseCalls(run.log) : j < i /\ run.log[j].ok
    /\ \A j \in ParseCalls(run.log) :
           ~run.log[j].ok => PayloadGets(run.log) = {}

\* C21, amended: the manifest is parsed after the batch download.
\* parse_sha512 is called once at most, after the signature was verified
\* and after every other eligible artifact of the listing was requested and
\* downloaded, and before any digest is compared; a manifest line that does
\* not split into four fields makes the run raise ValueError after these
\* downloads and before any comparison of digests.
C21_ParseAfterDownload ==
    /\ Cardinality(ParseCalls(run.log)) <= 1
    /\ \A j \in ParseCalls(run.log) :
           /\ SignatureVerifiedBefore(run.log, j)
           /\ \A a \in Range(order) :
                  \E i \in PayloadGets(run.log) :
                      i < j /\ run.log[i].name = a /\ run.log[i].ok
           /\ \A i \in PayloadGets(run.log) : i < j
           /\ \A i \in DigestChecks(run.log) : j < i
           /\ ~run.log[j].ok =>
                  /\ run.raised = "ValueError"
                  /\ DigestChecks(run.log) = {}
    /\ (/\ ran
        /\ BatchStarted(run.log)
        /\ \A i \in PayloadGets(run.log) : run.log[i].ok
        /\ Cardinality(PayloadGets(run.log)) = Len(order)
        /\ \E line \in Range(world.get[ArtChecksums].body) : Len(line) # 4)
           => run.raised = "ValueError"

\* a signed manifest with a line of three fields: both payload files were
\* downloaded before parse_sha512 raised
C21_Witness ==
    /\ ran
    /\ run.raised = "ValueError"
    /\ Len(order) = 2
    /\ Cardinality(PayloadGets(run.log)) = 2
    /\ \E j \in ParseCalls(run.log) : ~run.log[j].ok

============================================================================
